---- MODULE Spec2Model ----
(***************************************************************************)
(* Role-based access control of the penguin-x backend:                     *)
(*   app/core/roles.py             Role, RoleHierarchy                     *)
(*   app/core/auth/permissions.py  the request-time gates                  *)
(*   app/core/auth/dependencies.py get_current_user                        *)
(*   app/core/auth/jwt.py          the access and refresh tokens           *)
(*   app/api/v1/auth.py            login, refresh_access_token             *)
(*   app/services/user_service.py  the user store operations               *)
(***************************************************************************)
EXTENDS Integers, FiniteSets, Sequences, TLC

(***************************************************************************)
(* Bounds of the model.                                                    *)
(***************************************************************************)
MaxUsers == 2
NumProcs == 2

(***************************************************************************)
(* app/core/roles.py: the Role enum. A role is its lowercase value.        *)
(***************************************************************************)
USER == "user"
ADMIN == "admin"
INSTRUCTOR == "instructor"
STUDENT == "student"
FINANCE_VIEWER == "finance_viewer"
FINANCE_MANAGER == "finance_manager"
MODERATOR == "moderator"
ANALYST == "analyst"

Role ==
    {USER, ADMIN, INSTRUCTOR, STUDENT, FINANCE_VIEWER, FINANCE_MANAGER,
     MODERATOR, ANALYST}

\* A hierarchy table that lists direct parents only (no hand-written
\* transitive edges).
HIERARCHY_DirectParentsOnly ==
    [r \in Role |->
        CASE r = USER -> {}
          [] r = STUDENT -> {USER}
          [] r = INSTRUCTOR -> {STUDENT}
          [] r = FINANCE_VIEWER -> {USER}
          [] r = FINANCE_MANAGER -> {FINANCE_VIEWER}
          [] r = MODERATOR -> {USER}
          [] r = ANALYST -> {USER}
          [] r = ADMIN -> {INSTRUCTOR, FINANCE_MANAGER, MODERATOR, ANALYST}]

\* A hierarchy table whose ADMIN entry misses one role of the catalog.
HIERARCHY_AdminMissesModerator ==
    [r \in Role |->
        CASE r = USER -> {}
          [] r = STUDENT -> {USER}
          [] r = INSTRUCTOR -> {USER, STUDENT}
          [] r = FINANCE_VIEWER -> {USER}
          [] r = FINANCE_MANAGER -> {USER, FINANCE_VIEWER}
          [] r = MODERATOR -> {USER}
          [] r = ANALYST -> {USER}
          [] r = ADMIN -> {USER, STUDENT, INSTRUCTOR, FINANCE_VIEWER,
                           FINANCE_MANAGER, ANALYST}]

\* A hierarchy table in which the analyst was given the finance viewer role.
HIERARCHY_AnalystViewsFinance ==
    [r \in Role |->
        CASE r = USER -> {}
          [] r = STUDENT -> {USER}
          [] r = INSTRUCTOR -> {USER, STUDENT}
          [] r = FINANCE_VIEWER -> {USER}
          [] r = FINANCE_MANAGER -> {USER, FINANCE_VIEWER}
          [] r = MODERATOR -> {USER}
          [] r = ANALYST -> {USER, FINANCE_VIEWER}
          [] r = ADMIN -> {USER, STUDENT, INSTRUCTOR, FINANCE_VIEWER,
                           FINANCE_MANAGER, MODERATOR, ANALYST}]

\* A hierarchy table to which the analyst role was never added.
HIERARCHY_NoAnalystEntry ==
    [r \in Role \ {ANALYST} |->
        CASE r = USER -> {}
          [] r = STUDENT -> {USER}
          [] r = INSTRUCTOR -> {USER, STUDENT}
          [] r = FINANCE_VIEWER -> {USER}
          [] r = FINANCE_MANAGER -> {USER, FINANCE_VIEWER}
          [] r = MODERATOR -> {USER}
          [] r = ADMIN -> {USER, STUDENT, INSTRUCTOR, FINANCE_VIEWER,
                           FINANCE_MANAGER, MODERATOR, ANALYST}]

\* A hierarchy table in which the base role inherits the student role back.
HIERARCHY_UserInheritsStudent ==
    [r \in Role |->
        CASE r = USER -> {STUDENT}
          [] r = STUDENT -> {USER}
          [] r = INSTRUCTOR -> {USER, STUDENT}
          [] r = FINANCE_VIEWER -> {USER}
          [] r = FINANCE_MANAGER -> {USER, FINANCE_VIEWER}
          [] r = MODERATOR -> {USER}
          [] r = ANALYST -> {USER}
          [] r = ADMIN -> {USER, STUDENT, INSTRUCTOR, FINANCE_VIEWER,
                           FINANCE_MANAGER, MODERATOR, ANALYST}]

\* A hierarchy table in which the moderator was given the admin role.
HIERARCHY_ModeratorInheritsAdmin ==
    [r \in Role |->
        CASE r = USER -> {}
          [] r = STUDENT -> {USER}
          [] r = INSTRUCTOR -> {USER, STUDENT}
          [] r = FINANCE_VIEWER -> {USER}
          [] r = FINANCE_MANAGER -> {USER, FINANCE_VIEWER}
          [] r = MODERATOR -> {USER, ADMIN}
          [] r = ANALYST -> {USER}
          [] r = ADMIN -> {USER, STUDENT, INSTRUCTOR, FINANCE_VIEWER,
                           FINANCE_MANAGER, MODERATOR, ANALYST}]

\* RoleHierarchy.HIERARCHY
HIERARCHY ==
    [r \in Role |->
        CASE r = USER -> {}
          [] r = STUDENT -> {USER}
          [] r = INSTRUCTOR -> {USER, STUDENT}
          [] r = FINANCE_VIEWER -> {USER}
          [] r = FINANCE_MANAGER -> {USER, FINANCE_VIEWER}
          [] r = MODERATOR -> {USER}
          [] r = ANALYST -> {USER}
          [] r = ADMIN -> {USER, STUDENT, INSTRUCTOR, FINANCE_VIEWER,
                           FINANCE_MANAGER, MODERATOR, ANALYST}]

\* get_inherited_roles that grants a role without an entry every role.
get_inherited_roles_FailOpen(role) ==
    IF role \in DOMAIN HIERARCHY THEN HIERARCHY[role] ELSE Role

\* RoleHierarchy.get_inherited_roles: HIERARCHY.get(role, set())
get_inherited_roles(role) ==
    IF role \in DOMAIN HIERARCHY THEN HIERARCHY[role] ELSE {}

\* has_permission without the equality shortcut.
has_permission_NoEquality(user_role, required_role) ==
    required_role \in get_inherited_roles(user_role)

\* has_permission that also looks at the required role's inherited set.
has_permission_EitherDirection(user_role, required_role) ==
    IF user_role = required_role
    THEN TRUE
    ELSE \/ required_role \in get_inherited_roles(user_role)
         \/ user_role \in get_inherited_roles(required_role)

\* RoleHierarchy.has_permission
has_permission(user_role, required_role) ==
    IF user_role = required_role
    THEN TRUE
    ELSE required_role \in get_inherited_roles(user_role)

\* get_all_permissions that forgets the role itself.
get_all_permissions_InheritedOnly(role) ==
    get_inherited_roles(role)

\* RoleHierarchy.get_all_permissions
get_all_permissions(role) ==
    {role} \cup get_inherited_roles(role)

(***************************************************************************)
(* The closure the hierarchy is specified against: the roles reachable     *)
(* from a role by one or more inheritance edges, computed by repeated      *)
(* expansion until nothing is added.                                       *)
(***************************************************************************)
Expand(S) == S \cup UNION {get_inherited_roles(r) : r \in S}

RECURSIVE Fixpoint(_, _)
Fixpoint(S, n) ==
    IF n = 0 \/ Expand(S) = S THEN S ELSE Fixpoint(Expand(S), n - 1)

Reachable(role) ==
    Fixpoint(get_inherited_roles(role), Cardinality(Role))

\* test_circular_dependency_prevention, check_no_cycles(role, path)
RECURSIVE check_no_cycles(_, _)
check_no_cycles(role, path) ==
    IF role \in path
    THEN FALSE
    ELSE \A inherited_role \in get_inherited_roles(role) :
            check_no_cycles(inherited_role, path \cup {role})

(***************************************************************************)
(* The Role enum as members and values: a member is named in upper case    *)
(* and carries its value, the token stored and sent.                       *)
(***************************************************************************)
RoleValue ==
    [USER |-> USER, ADMIN |-> ADMIN, INSTRUCTOR |-> INSTRUCTOR,
     STUDENT |-> STUDENT, FINANCE_VIEWER |-> FINANCE_VIEWER,
     FINANCE_MANAGER |-> FINANCE_MANAGER, MODERATOR |-> MODERATOR,
     ANALYST |-> ANALYST]

ValueError == "ValueError"

\* str of an Enum member without the __str__ override: "Role.<NAME>".
str_EnumDefault(member) ==
    "Role." \o member

\* Role.__str__: return self.value
str(member) ==
    RoleValue[member]

\* Role(value): the member that carries the value, ValueError when none does
RoleOfValue(value) ==
    IF \E member \in DOMAIN RoleValue : RoleValue[member] = value
    THEN CHOOSE member \in DOMAIN RoleValue : RoleValue[member] = value
    ELSE ValueError

\* The member name in lower case (str.lower on the eight names).
lower(member) ==
    CASE member = "USER" -> "user"
      [] member = "ADMIN" -> "admin"
      [] member = "INSTRUCTOR" -> "instructor"
      [] member = "STUDENT" -> "student"
      [] member = "FINANCE_VIEWER" -> "finance_viewer"
      [] member = "FINANCE_MANAGER" -> "finance_manager"
      [] member = "MODERATOR" -> "moderator"
      [] member = "ANALYST" -> "analyst"

(***************************************************************************)
(* app/core/roles.py: the convenience functions.                           *)
(***************************************************************************)
is_admin(role) == role = ADMIN

is_instructor_or_higher(role) == has_permission(role, INSTRUCTOR)

is_finance_manager_or_higher(role) == has_permission(role, FINANCE_MANAGER)

\* can_view_finances that asks for the manager role.
can_view_finances_ManagerOnly(role) == has_permission(role, FINANCE_MANAGER)

can_view_finances(role) == has_permission(role, FINANCE_VIEWER)

can_moderate(role) == has_permission(role, MODERATOR)

can_view_analytics(role) == has_permission(role, ANALYST)

(***************************************************************************)
(* app/models/user.py: a stored user row, and the ORM instance a lookup    *)
(* hands to the gates (the caller record).                                 *)
(***************************************************************************)
UserIds == 1..MaxUsers

NoUser ==
    [exists |-> FALSE, is_active |-> FALSE, is_superuser |-> FALSE,
     role |-> USER]

NoCaller ==
    [id |-> 0, is_active |-> FALSE, is_superuser |-> FALSE, role |-> USER]

\* User(**user_dict): the column defaults of the model, with the fields the
\* creation data carries.
User(role, is_active) ==
    [exists |-> TRUE, is_active |-> is_active, is_superuser |-> FALSE,
     role |-> role]

Instance(db, u) ==
    [id |-> u, is_active |-> db[u].is_active,
     is_superuser |-> db[u].is_superuser, role |-> db[u].role]

(***************************************************************************)
(* Identifier claims of a token: the user's UUID string, the user's email, *)
(* or no claim.                                                            *)
(***************************************************************************)
NoClaim == <<"none", 0>>
Uuid(u) == <<"uuid", u>>
Email(u) == <<"email", u>>

\* A bearer credential: absent, or a token that decodes (signature valid,
\* not expired) or does not, with its user_id and sub claims.
NoCredential ==
    [present |-> FALSE, decodable |-> FALSE, user_id |-> NoClaim,
     sub |-> NoClaim]

\* The identifier claims a token is created with: none, a user's id alone
\* (create_refresh_token), a user's email alone, or both (login).
IdentifierClaims ==
    {<<NoClaim, NoClaim>>}
    \cup {<<Uuid(u), NoClaim>> : u \in UserIds}
    \cup {<<NoClaim, Email(u)>> : u \in UserIds}
    \cup {<<Uuid(u), Email(u)>> : u \in UserIds}

Tokens ==
    {[present |-> TRUE, decodable |-> d, user_id |-> c[1], sub |-> c[2]] :
        d \in BOOLEAN, c \in IdentifierClaims}

Credentials == {NoCredential} \cup Tokens

NoPayload == [valid |-> FALSE, user_id |-> NoClaim, sub |-> NoClaim]

\* decode_access_token that accepts a token whose signature or expiry check
\* fails.
decode_access_token_NoVerify(token) ==
    [valid |-> TRUE, user_id |-> token.user_id, sub |-> token.sub]

\* app/core/auth/jwt.py decode_access_token: the payload, or None on JWTError
decode_access_token(token) ==
    IF token.decodable
    THEN [valid |-> TRUE, user_id |-> token.user_id, sub |-> token.sub]
    ELSE NoPayload

\* UserService.get_user_by_id
get_user_by_id(db, user_id) ==
    IF \E u \in UserIds : db[u].exists /\ Uuid(u) = user_id
    THEN Instance(db, CHOOSE u \in UserIds : db[u].exists /\ Uuid(u) = user_id)
    ELSE NoCaller

\* UserService.get_by_email
get_by_email(db, email) ==
    IF \E u \in UserIds : db[u].exists /\ Email(u) = email
    THEN Instance(db, CHOOSE u \in UserIds : db[u].exists /\ Email(u) = email)
    ELSE NoCaller

(***************************************************************************)
(* Results of a dependency: the returned user, or the HTTPException raised. *)
(***************************************************************************)
Allowed == 200

Return(user) == [status |-> Allowed, detail |-> <<>>, user |-> user]

HTTPException(status_code, detail) ==
    [status |-> status_code, detail |-> detail, user |-> NoCaller]

\* get_current_user, lines 63-89: the identifier of the payload and the
\* lookup of the user it names.
lookup_user(payload, db) ==
    LET user_id == IF payload.user_id = NoClaim THEN payload.sub
                   ELSE payload.user_id
    IN  IF user_id = NoClaim THEN NoCaller
        ELSE IF user_id[1] = "uuid" THEN get_user_by_id(db, user_id)
        ELSE get_by_email(db, user_id)

\* get_current_user that reports an inactive user as a credentials failure.
get_current_user_Inactive401(token, db) ==
    LET payload == decode_access_token(token)
        user == lookup_user(payload, db)
    IN  IF ~token.present
        THEN HTTPException(401, <<"Not authenticated">>)
        ELSE IF ~payload.valid
        THEN HTTPException(401, <<"Could not validate credentials">>)
        ELSE IF user = NoCaller \/ ~user.is_active
        THEN HTTPException(401, <<"Could not validate credentials">>)
        ELSE Return(user)

\* app/core/auth/dependencies.py get_current_user (token: Depends(oauth2_scheme))
get_current_user(token, db) ==
    LET payload == decode_access_token(token)
        user == lookup_user(payload, db)
    IN  IF ~token.present
        THEN HTTPException(401, <<"Not authenticated">>)
        ELSE IF ~payload.valid
        THEN HTTPException(401, <<"Could not validate credentials">>)
        ELSE IF payload.user_id = NoClaim /\ payload.sub = NoClaim
        THEN HTTPException(401, <<"Could not validate credentials">>)
        ELSE IF user = NoCaller
        THEN HTTPException(401, <<"Could not validate credentials">>)
        ELSE IF ~user.is_active
        THEN HTTPException(400, <<"Inactive user">>)
        ELSE Return(user)

\* app/core/auth/permissions.py get_current_active_user, the body
active_user_check(current_user) ==
    IF ~current_user.is_active
    THEN HTTPException(400, <<"Inactive user">>)
    ELSE Return(current_user)

\* app/core/auth/permissions.py get_current_active_user, with its dependency
\* Depends(get_current_user): the body runs on the user the dependency
\* returns; an exception of the dependency ends the request.
get_current_active_user(token, db) ==
    LET dep == get_current_user(token, db)
    IN  IF dep.status = Allowed THEN active_user_check(dep.user) ELSE dep

\* required_role.value.title()
Title(role) ==
    CASE role = USER -> "User"
      [] role = ADMIN -> "Admin"
      [] role = INSTRUCTOR -> "Instructor"
      [] role = STUDENT -> "Student"
      [] role = FINANCE_VIEWER -> "Finance_Viewer"
      [] role = FINANCE_MANAGER -> "Finance_Manager"
      [] role = MODERATOR -> "Moderator"
      [] role = ANALYST -> "Analyst"

\* role_checker that asks whether the required role holds the caller's.
role_checker_SwappedArguments(required_role, current_user) ==
    IF ~has_permission(required_role, current_user.role)
    THEN HTTPException(403, <<"Access denied.", Title(required_role),
                              "role required.">>)
    ELSE Return(current_user)

\* require_role.role_checker, the body
role_checker(required_role, current_user) ==
    IF ~has_permission(current_user.role, required_role)
    THEN HTTPException(403, <<"Access denied.", Title(required_role),
                              "role required.">>)
    ELSE Return(current_user)

\* require_role(required_role): role_checker over Depends(get_current_active_user)
require_role(required_role, token, db) ==
    LET dep == get_current_active_user(token, db)
    IN  IF dep.status = Allowed THEN role_checker(required_role, dep.user)
        ELSE dep

\* A caller record whose role attribute is missing or None (a legacy record),
\* and a role value that is no member of the Role catalog.
RoleAbsent == "None"
UnknownRole == "superadmin"

AdminRequired ==
    <<"Not enough permissions. Admin access required.">>

\* get_current_active_superuser that consults the role before the account
\* state.
superuser_check_RoleFirst(current_user) ==
    IF current_user.role # RoleAbsent
          /\ ~has_permission(current_user.role, ADMIN)
    THEN HTTPException(403, AdminRequired)
    ELSE IF current_user.role = RoleAbsent /\ ~current_user.is_superuser
    THEN HTTPException(403, AdminRequired)
    ELSE IF ~current_user.is_active
    THEN HTTPException(400, <<"Inactive user">>)
    ELSE Return(current_user)

\* get_current_active_superuser that keeps the legacy flag of the admin it
\* allows in step with the role.
superuser_check_SyncsLegacyFlag(current_user) ==
    IF ~current_user.is_active
    THEN HTTPException(400, <<"Inactive user">>)
    ELSE IF current_user.role # RoleAbsent
    THEN IF ~has_permission(current_user.role, ADMIN)
         THEN HTTPException(403, AdminRequired)
         ELSE Return([current_user EXCEPT !.is_superuser = TRUE])
    ELSE IF ~current_user.is_superuser
         THEN HTTPException(403, AdminRequired)
         ELSE Return(current_user)

\* get_current_active_superuser without the is_superuser fallback.
superuser_check_NoFallback(current_user) ==
    IF ~current_user.is_active
    THEN HTTPException(400, <<"Inactive user">>)
    ELSE IF ~has_permission(current_user.role, ADMIN)
    THEN HTTPException(403, AdminRequired)
    ELSE Return(current_user)

\* get_current_active_superuser that lets the legacy flag grant access to a
\* caller whose role does not.
superuser_check_FlagAlsoGrants(current_user) ==
    IF ~current_user.is_active
    THEN HTTPException(400, <<"Inactive user">>)
    ELSE IF current_user.is_superuser
    THEN Return(current_user)
    ELSE IF current_user.role # RoleAbsent
            /\ has_permission(current_user.role, ADMIN)
    THEN Return(current_user)
    ELSE HTTPException(403, AdminRequired)

\* app/core/auth/permissions.py get_current_active_superuser, the body
superuser_check(current_user) ==
    IF ~current_user.is_active
    THEN HTTPException(400, <<"Inactive user">>)
    ELSE IF current_user.role # RoleAbsent
    THEN IF ~has_permission(current_user.role, ADMIN)
         THEN HTTPException(403, AdminRequired)
         ELSE Return(current_user)
    ELSE IF ~current_user.is_superuser
         THEN HTTPException(403, AdminRequired)
         ELSE Return(current_user)

\* get_current_active_superuser over Depends(get_current_user)
get_current_active_superuser(token, db) ==
    LET dep == get_current_user(token, db)
    IN  IF dep.status = Allowed THEN superuser_check(dep.user) ELSE dep

\* app/core/auth/dependencies.py get_current_superuser, the body
superuser_flag_check(current_user) ==
    IF ~current_user.is_superuser
    THEN HTTPException(403,
            <<"Not enough permissions. Superuser access required.">>)
    ELSE Return(current_user)

\* get_current_superuser over Depends(get_current_user)
get_current_superuser(token, db) ==
    LET dep == get_current_user(token, db)
    IN  IF dep.status = Allowed THEN superuser_flag_check(dep.user) ELSE dep

\* app/core/auth/dependencies.py get_optional_current_user
\* (token: Depends(oauth2_scheme), the scheme constructed without auto_error);
\* a returned None is Return(NoCaller).
get_optional_current_user(token, db) ==
    LET payload == decode_access_token(token)
        user == lookup_user(payload, db)
    IN  IF ~token.present
        THEN HTTPException(401, <<"Not authenticated">>)
        ELSE IF ~payload.valid
        THEN Return(NoCaller)
        ELSE IF payload.user_id = NoClaim /\ payload.sub = NoClaim
        THEN Return(NoCaller)
        ELSE IF user = NoCaller \/ ~user.is_active
        THEN Return(NoCaller)
        ELSE Return(user)

\* Pre-defined role dependencies
require_admin(token, db) == require_role(ADMIN, token, db)
require_instructor(token, db) == require_role(INSTRUCTOR, token, db)
require_finance_manager(token, db) == require_role(FINANCE_MANAGER, token, db)
require_finance_viewer(token, db) == require_role(FINANCE_VIEWER, token, db)
require_moderator(token, db) == require_role(MODERATOR, token, db)
require_analyst(token, db) == require_role(ANALYST, token, db)

\* The role each pre-defined dependency is declared for.
Predefined ==
    [require_admin |-> ADMIN, require_instructor |-> INSTRUCTOR,
     require_finance_manager |-> FINANCE_MANAGER,
     require_finance_viewer |-> FINANCE_VIEWER,
     require_moderator |-> MODERATOR, require_analyst |-> ANALYST]

NoRole == "-"

\* The gates an endpoint can declare: [name, role], role being the argument
\* of require_role or the declared role of a pre-defined dependency.
\* require_role(R) of a role with a pre-defined dependency is that dependency.
Gates ==
    {[name |-> "get_current_active_user", role |-> NoRole]}
    \cup {[name |-> "require_role", role |-> r] :
            r \in Role \ {Predefined[n] : n \in DOMAIN Predefined}}
    \cup {[name |-> n, role |-> Predefined[n]] : n \in DOMAIN Predefined}

RoleGates == {g \in Gates : g.name # "get_current_active_user"}

\* The admin gate of get_current_active_superuser.
SuperuserGate == [name |-> "get_current_active_superuser", role |-> ADMIN]

AllGates == Gates \cup {SuperuserGate}

\* The superuser gate of get_current_superuser, declared by the endpoints of
\* app/api/v1/user.py.
FlagGate == [name |-> "get_current_superuser", role |-> NoRole]

AdminGates == {SuperuserGate, FlagGate}

\* The dependency of get_user_public, app/api/v1/user.py.
OptionalGate == [name |-> "get_optional_current_user", role |-> NoRole]

Evaluate(gate, token, db) ==
    CASE gate.name = "get_current_active_user" ->
            get_current_active_user(token, db)
      [] gate.name = "get_current_active_superuser" ->
            get_current_active_superuser(token, db)
      [] gate.name = "get_current_superuser" ->
            get_current_superuser(token, db)
      [] gate.name = "get_optional_current_user" ->
            get_optional_current_user(token, db)
      [] gate.name = "require_role" -> require_role(gate.role, token, db)
      [] gate.name = "require_admin" -> require_admin(token, db)
      [] gate.name = "require_instructor" -> require_instructor(token, db)
      [] gate.name = "require_finance_manager" ->
            require_finance_manager(token, db)
      [] gate.name = "require_finance_viewer" ->
            require_finance_viewer(token, db)
      [] gate.name = "require_moderator" -> require_moderator(token, db)
      [] gate.name = "require_analyst" -> require_analyst(token, db)

\* The caller records a gate can be handed when the user of its
\* get_current_user dependency is supplied directly.
Callers ==
    [id : {1}, is_active : BOOLEAN, is_superuser : BOOLEAN,
     role : Role \cup {RoleAbsent, UnknownRole}]

\* The gate evaluated below get_current_user, on the user that dependency
\* supplies.
EvaluateOn(gate, current_user) ==
    CASE gate.name = "get_current_active_user" ->
            active_user_check(current_user)
      [] gate.name = "get_current_active_superuser" ->
            superuser_check(current_user)
      [] OTHER ->
            LET dep == active_user_check(current_user)
            IN  IF dep.status = Allowed THEN role_checker(gate.role, dep.user)
                ELSE dep

(***************************************************************************)
(* State.                                                                  *)
(*   users     : the users table                                           *)
(*   last      : the gated request being answered: its gate, its           *)
(*               credential, the user the lookup found, and the result of  *)
(*               the gate; NoRequest between requests                      *)
(*   args, res : the inputs and the results of the calls of the pure       *)
(*               RoleHierarchy functions                                   *)
(*   hierarchy : the class attribute RoleHierarchy.HIERARCHY, shared by    *)
(*               every thread of the process                               *)
(*   procs     : the threads that run permission checks side by side: the  *)
(*               call each is in, the line it stands on, its local         *)
(*               permissions set and its return value                      *)
(*   issued    : the tokens the auth endpoints have created, each with the *)
(*               account state of its user at that moment                  *)
(*   auth      : the auth request being answered; NoAuth between requests  *)
(***************************************************************************)
VARIABLES users, last, args, res, hierarchy, procs, issued, auth

vars == <<users, last, args, res, hierarchy, procs, issued, auth>>

NoRequest ==
    [gate |-> [name |-> "none", role |-> NoRole], token |-> NoCredential,
     resolved |-> NoCaller, result |-> HTTPException(0, <<>>)]

NoPredicates ==
    [is_instructor_or_higher |-> FALSE, is_finance_manager_or_higher |-> FALSE,
     can_view_finances |-> FALSE, can_moderate |-> FALSE,
     can_view_analytics |-> FALSE]

NoResult ==
    [done |-> {}, ab |-> FALSE, bc |-> FALSE, ac |-> FALSE,
     inherited |-> {}, permissions |-> {},
     in_hierarchy |-> FALSE, in_catalog |-> FALSE,
     no_cycles |-> FALSE, walk |-> <<>>,
     member |-> "", str |-> "", parsed |-> "",
     predicates |-> NoPredicates,
     is_admin |-> FALSE, admin_permission |-> FALSE]

(***************************************************************************)
(* app/core/auth/jwt.py and app/api/v1/auth.py: the tokens of the auth     *)
(* endpoints. A token is its payload; a refresh token carries the type     *)
(* claim "refresh", an access token carries none.                          *)
(***************************************************************************)
NoType == "-"

\* create_access_token(data): the claims of data, signed
create_access_token(sub, user_id, role) ==
    [type |-> NoType, user_id |-> user_id, sub |-> sub, role |-> role]

\* create_refresh_token(user_id)
create_refresh_token(user_id) ==
    [type |-> "refresh", user_id |-> user_id, sub |-> NoClaim, role |-> NoRole]

\* The strings a client can send as its refresh token: a payload under a
\* signature that verifies or does not.
Payloads ==
    {create_refresh_token(Uuid(u)) : u \in UserIds}
    \cup {create_access_token(Email(u), Uuid(u), NoRole) : u \in UserIds}

PresentedTokens == [signed : BOOLEAN, payload : Payloads]

\* verify_refresh_token: the user_id of a refresh token, None (NoClaim) for a
\* token that does not decode or is not of type "refresh"
verify_refresh_token(token) ==
    IF ~token.signed THEN NoClaim
    ELSE IF token.payload.type # "refresh" THEN NoClaim
    ELSE token.payload.user_id

\* UserService.get_by_id
get_by_id(db, user_id) ==
    IF \E u \in UserIds : db[u].exists /\ Uuid(u) = user_id
    THEN Instance(db, CHOOSE u \in UserIds : db[u].exists /\ Uuid(u) = user_id)
    ELSE NoCaller

\* UserService.authenticate: the user of the email when the password
\* verifies against its hash, None (NoCaller) otherwise
authenticate(db, username, password_verifies) ==
    LET user == get_by_email(db, username)
    IN  IF user = NoCaller THEN NoCaller
        ELSE IF ~password_verifies THEN NoCaller
        ELSE user

\* The answer of an auth endpoint: the status, the detail, the tokens it
\* created, with the user the request resolved to.
AuthResponse(op, user, status_code, detail, tokens) ==
    [op |-> op, user |-> user, status |-> status_code, detail |-> detail,
     tokens |-> tokens]

NoAuth == AuthResponse("none", NoCaller, 0, <<>>, {})

\* The record of a created token: the token and the account state of its
\* user in the store at that moment.
Issuance(db, user, token) ==
    [token |-> token, active |-> db[user.id].is_active]

\* The threads, and a thread that runs no call.
Procs == 1..NumProcs

Idle ==
    [op |-> "none", pc |-> "idle", permissions |-> {}, ret_bool |-> FALSE,
     ret_set |-> {}, ret_status |-> 0]

\* The calls a thread can make, with the line each is entered at.
Entry ==
    [has_permission |-> "l78", get_inherited_roles |-> "l95",
     get_all_permissions |-> "l108", role_checker |-> "l126"]

(***************************************************************************)
(* The user store operations.                                              *)
(***************************************************************************)
\* UserService.create_user
create_user(u, role, is_active) ==
    /\ last = NoRequest
    /\ ~users[u].exists
    /\ users' = [users EXCEPT ![u] = User(role, is_active)]
    /\ UNCHANGED <<hierarchy, procs, issued, auth>>
    /\ UNCHANGED <<last, args, res>>

\* UserService.deactivate_user
deactivate_user(u) ==
    /\ last = NoRequest
    /\ users[u].exists
    /\ users' = [users EXCEPT ![u].is_active = FALSE]
    /\ UNCHANGED <<hierarchy, procs, issued, auth>>
    /\ UNCHANGED <<last, args, res>>

\* UserService.activate_user
activate_user(u) ==
    /\ last = NoRequest
    /\ users[u].exists
    /\ users' = [users EXCEPT ![u].is_active = TRUE]
    /\ UNCHANGED <<hierarchy, procs, issued, auth>>
    /\ UNCHANGED <<last, args, res>>

\* The user seed_initial_data creates: the account of admin@penguinx.com.
AdminSlot == 1

\* app/db/init_db.py seed_initial_data: when there is no admin account yet,
\* create it (column defaults) and make it a superuser.
seed_initial_data ==
    /\ last = NoRequest
    /\ ~users[AdminSlot].exists
    /\ users' = [users EXCEPT
                   ![AdminSlot] = [User(USER, TRUE) EXCEPT !.is_superuser = TRUE]]
    /\ UNCHANGED <<last, args, res, hierarchy, procs, issued, auth>>

\* migrate_user_roles that leaves the accounts that are not active alone.
migrate_user_roles_ActiveOnly ==
    /\ last = NoRequest
    /\ \E u \in UserIds : users[u].exists
    /\ users' = [u \in UserIds |->
                   IF users[u].exists /\ users[u].is_active
                   THEN [users[u] EXCEPT
                           !.role = IF users[u].is_superuser THEN ADMIN
                                    ELSE USER]
                   ELSE users[u]]
    /\ UNCHANGED <<last, args, res, hierarchy, procs, issued, auth>>

\* add_role_migration_example.py migrate_user_roles: every user gets the role
\* ADMIN when it is a superuser and USER otherwise, in one commit.
migrate_user_roles ==
    /\ last = NoRequest
    /\ \E u \in UserIds : users[u].exists
    /\ users' = [u \in UserIds |->
                   IF users[u].exists
                   THEN [users[u] EXCEPT
                           !.role = IF users[u].is_superuser THEN ADMIN
                                    ELSE USER]
                   ELSE users[u]]
    /\ UNCHANGED <<last, args, res, hierarchy, procs, issued, auth>>

\* The {user_id} path parameter of app/api/v1/user.py, declared int.
PathId(n) == <<"int", n>>

\* POST /{user_id}/deactivate of app/api/v1/user.py
DeactivateRoute == [name |-> "deactivate_user", role |-> NoRole]

\* app/api/v1/user.py deactivate_user.  The id column is CHAR(36) holding
\* str(uuid4()) and the path parameter is an int: which row the database
\* matches for `User.id == user_id` depends on the backend (none under a text
\* comparison, a row whose id has that numeric prefix under MySQL's numeric
\* coercion); row is that outcome, 0 for no row.
deactivate_user_endpoint(token, user_id, row) ==
    /\ last = NoRequest
    /\ row # 0 => users[row].exists
    /\ LET dep == get_current_superuser(token, users)
           found == dep.status = Allowed /\ row # 0
           own == found /\ Uuid(dep.user.id) = user_id
           db == IF found /\ ~own
                 THEN [users EXCEPT ![row].is_active = FALSE]
                 ELSE users
       IN  /\ users' = db
           /\ last' = [gate |-> DeactivateRoute, token |-> token,
                       resolved |-> dep.user,
                       result |->
                         IF dep.status # Allowed THEN dep
                         ELSE IF row = 0
                         THEN HTTPException(404, <<"User not found">>)
                         ELSE IF own
                         THEN HTTPException(400,
                                 <<"Cannot deactivate your own account">>)
                         ELSE Return(Instance(db, row))]
    /\ UNCHANGED <<args, res, hierarchy, procs, issued, auth>>

\* A request to an endpoint that declares the gate as its dependency.
GatedRequest(gate, token) ==
    /\ last = NoRequest
    /\ last' = [gate |-> gate, token |-> token,
                resolved |-> lookup_user(decode_access_token(token), users),
                result |-> Evaluate(gate, token, users)]
    /\ UNCHANGED <<hierarchy, procs, issued, auth>>
    /\ UNCHANGED <<users, args, res>>

\* A gate called with the user of its get_current_user dependency supplied
\* (the dependency overridden, as the unit tests of the gates do).
GateCall(gate, current_user) ==
    /\ last = NoRequest
    /\ last' = [gate |-> gate, token |-> NoCredential,
                resolved |-> current_user,
                result |-> EvaluateOn(gate, current_user)]
    /\ UNCHANGED <<hierarchy, procs, issued, auth>>
    /\ UNCHANGED <<users, args, res>>

\* The response (the endpoint's answer or the HTTPException) is sent.
Respond ==
    /\ last # NoRequest
    /\ last' = NoRequest
    /\ UNCHANGED <<hierarchy, procs, issued, auth>>
    /\ UNCHANGED <<users, args, res>>

(***************************************************************************)
(* The calls of the pure functions.                                        *)
(***************************************************************************)
\* Three has_permission calls on the pairs of the current input triple.
CallHasPermission ==
    /\ "has_permission" \notin res.done
    /\ res' = [res EXCEPT
                 !.done = @ \cup {"has_permission"},
                 !.ab = has_permission(args[1], args[2]),
                 !.bc = has_permission(args[2], args[3]),
                 !.ac = has_permission(args[1], args[3])]
    /\ UNCHANGED <<hierarchy, procs, issued, auth>>
    /\ UNCHANGED <<users, last, args>>

CallGetInheritedRoles ==
    /\ "get_inherited_roles" \notin res.done
    /\ res' = [res EXCEPT
                 !.done = @ \cup {"get_inherited_roles"},
                 !.inherited = get_inherited_roles(args[1])]
    /\ UNCHANGED <<hierarchy, procs, issued, auth>>
    /\ UNCHANGED <<users, last, args>>

CallGetAllPermissions ==
    /\ "get_all_permissions" \notin res.done
    /\ res' = [res EXCEPT
                 !.done = @ \cup {"get_all_permissions"},
                 !.permissions = get_all_permissions(args[1])]
    /\ UNCHANGED <<hierarchy, procs, issued, auth>>
    /\ UNCHANGED <<users, last, args>>

\* test_role_hierarchy_contains_all_roles on the first input: the role is a
\* key of HIERARCHY, and the roles it inherits are roles of the catalog.
CallInHierarchy ==
    /\ "in_hierarchy" \notin res.done
    /\ res' = [res EXCEPT
                 !.done = @ \cup {"in_hierarchy"},
                 !.in_hierarchy = args[1] \in DOMAIN HIERARCHY,
                 !.in_catalog = get_inherited_roles(args[1]) \subseteq Role]
    /\ UNCHANGED <<hierarchy, procs, issued, auth>>
    /\ UNCHANGED <<users, last, args>>

\* check_no_cycles(role, set()) on the first input.
CallCheckNoCycles ==
    /\ "check_no_cycles" \notin res.done
    /\ res' = [res EXCEPT
                 !.done = @ \cup {"check_no_cycles"},
                 !.no_cycles = check_no_cycles(args[1], {})]
    /\ UNCHANGED <<hierarchy, procs, issued, auth>>
    /\ UNCHANGED <<users, last, args>>

\* One step of a walk that starts at the first input and moves from the
\* role it stands on to one of the roles that role inherits.
WalkStep ==
    /\ Len(res.walk) <= Cardinality(Role)
    /\ LET here == IF res.walk = <<>> THEN args[1]
                   ELSE res.walk[Len(res.walk)]
       IN  \E inherited_role \in get_inherited_roles(here) :
              res' = [res EXCEPT !.walk = Append(@, inherited_role)]
    /\ UNCHANGED <<hierarchy, procs, issued, auth>>
    /\ UNCHANGED <<users, last, args>>

\* str(role), and Role(str(role)), of the member of the first input.
CallStr ==
    /\ "str" \notin res.done
    /\ LET member == CHOOSE m \in DOMAIN RoleValue : RoleValue[m] = args[1]
       IN  res' = [res EXCEPT
                     !.done = @ \cup {"str"},
                     !.member = member,
                     !.str = str(member),
                     !.parsed = RoleOfValue(str(member))]
    /\ UNCHANGED <<hierarchy, procs, issued, auth>>
    /\ UNCHANGED <<users, last, args>>

\* The convenience functions on the first input.
CallPredicates ==
    /\ "predicates" \notin res.done
    /\ res' = [res EXCEPT
                 !.done = @ \cup {"predicates"},
                 !.predicates =
                    [is_instructor_or_higher |->
                        is_instructor_or_higher(args[1]),
                     is_finance_manager_or_higher |->
                        is_finance_manager_or_higher(args[1]),
                     can_view_finances |-> can_view_finances(args[1]),
                     can_moderate |-> can_moderate(args[1]),
                     can_view_analytics |-> can_view_analytics(args[1])]]
    /\ UNCHANGED <<hierarchy, procs, issued, auth>>
    /\ UNCHANGED <<users, last, args>>

(***************************************************************************)
(* app/api/v1/auth.py: the auth endpoints.                                 *)
(***************************************************************************)
\* login that does not look at the account state.
login_NoActiveCheck(email, password_verifies) ==
    LET user == authenticate(users, email, password_verifies)
        tokens == {create_access_token(Email(user.id), Uuid(user.id),
                                       user.role),
                   create_refresh_token(Uuid(user.id))}
    IN  /\ auth = NoAuth
        /\ IF user = NoCaller
           THEN /\ auth' = AuthResponse("login", user, 401,
                                        <<"Incorrect email or password">>, {})
                /\ UNCHANGED issued
           ELSE /\ auth' = AuthResponse("login", user, Allowed, <<>>, tokens)
                /\ issued' = issued \cup
                                {Issuance(users, user, t) : t \in tokens}
        /\ UNCHANGED <<users, last, args, res, hierarchy, procs>>

\* POST /auth/login
login(email, password_verifies) ==
    LET user == authenticate(users, email, password_verifies)
        tokens == {create_access_token(Email(user.id), Uuid(user.id),
                                       user.role),
                   create_refresh_token(Uuid(user.id))}
    IN  /\ auth = NoAuth
        /\ IF user = NoCaller
           THEN /\ auth' = AuthResponse("login", user, 401,
                                        <<"Incorrect email or password">>, {})
                /\ UNCHANGED issued
           ELSE IF ~user.is_active
           THEN /\ auth' = AuthResponse("login", user, 400,
                                        <<"User account is inactive">>, {})
                /\ UNCHANGED issued
           ELSE /\ auth' = AuthResponse("login", user, Allowed, <<>>, tokens)
                /\ issued' = issued \cup
                                {Issuance(users, user, t) : t \in tokens}
        /\ UNCHANGED <<users, last, args, res, hierarchy, procs>>

\* refresh_access_token that only asks whether the user exists.
refresh_access_token_NoActiveCheck(refresh_token) ==
    LET user_id == verify_refresh_token(refresh_token)
        user == IF user_id = NoClaim THEN NoCaller
                ELSE get_by_id(users, user_id)
        tokens == {create_access_token(Email(user.id), Uuid(user.id), NoRole)}
    IN  /\ auth = NoAuth
        /\ IF user_id = NoClaim
           THEN /\ auth' = AuthResponse("refresh", user, 401,
                                        <<"Invalid refresh token">>, {})
                /\ UNCHANGED issued
           ELSE IF user = NoCaller
           THEN /\ auth' = AuthResponse("refresh", user, 401,
                                        <<"User not found or inactive">>, {})
                /\ UNCHANGED issued
           ELSE /\ auth' = AuthResponse("refresh", user, Allowed, <<>>, tokens)
                /\ issued' = issued \cup
                                {Issuance(users, user, t) : t \in tokens}
        /\ UNCHANGED <<users, last, args, res, hierarchy, procs>>

\* POST /auth/refresh
refresh_access_token(refresh_token) ==
    LET user_id == verify_refresh_token(refresh_token)
        user == IF user_id = NoClaim THEN NoCaller
                ELSE get_by_id(users, user_id)
        tokens == {create_access_token(Email(user.id), Uuid(user.id), NoRole)}
    IN  /\ auth = NoAuth
        /\ IF user_id = NoClaim
           THEN /\ auth' = AuthResponse("refresh", user, 401,
                                        <<"Invalid refresh token">>, {})
                /\ UNCHANGED issued
           ELSE IF user = NoCaller \/ ~user.is_active
           THEN /\ auth' = AuthResponse("refresh", user, 401,
                                        <<"User not found or inactive">>, {})
                /\ UNCHANGED issued
           ELSE /\ auth' = AuthResponse("refresh", user, Allowed, <<>>, tokens)
                /\ issued' = issued \cup
                                {Issuance(users, user, t) : t \in tokens}
        /\ UNCHANGED <<users, last, args, res, hierarchy, procs>>

\* The Authorization header of a client that sends a token the server
\* created: the token decodes (its signature verifies), and carries every
\* claim it was created with.
Bearer(payload) ==
    [present |-> TRUE, decodable |-> TRUE, user_id |-> payload.user_id,
     sub |-> payload.sub, type |-> payload.type, role |-> payload.role]

\* The user a created token names.
Owner(payload) == CHOOSE u \in UserIds : Uuid(u) = payload.user_id

\* A gated request that takes the account to be active, as it was when the
\* token was created.
BearerRequest_ActiveAtIssuance(gate, payload) ==
    /\ last = NoRequest
    /\ auth = NoAuth
    /\ \E e \in issued : e.token = payload
    /\ LET db == [u \in UserIds |-> [users[u] EXCEPT !.is_active = TRUE]]
       IN  last' = [gate |-> gate, token |-> Bearer(payload),
                    resolved |-> lookup_user(
                                    decode_access_token(Bearer(payload)), users),
                    result |-> Evaluate(gate, Bearer(payload), db)]
    /\ UNCHANGED <<users, args, res, hierarchy, procs, issued, auth>>

\* A gated request that decides on the role claim of the token.
BearerRequest_TrustsRoleClaim(gate, payload) ==
    /\ last = NoRequest
    /\ auth = NoAuth
    /\ \E e \in issued : e.token = payload
    /\ LET db == [u \in UserIds |->
                    IF u = Owner(payload) /\ payload.role \in Role
                    THEN [users[u] EXCEPT !.role = payload.role]
                    ELSE users[u]]
       IN  last' = [gate |-> gate, token |-> Bearer(payload),
                    resolved |-> lookup_user(
                                    decode_access_token(Bearer(payload)), users),
                    result |-> Evaluate(gate, Bearer(payload), db)]
    /\ UNCHANGED <<users, args, res, hierarchy, procs, issued, auth>>

\* A request to a gated endpoint by a client that holds a token created by
\* login; the auth endpoints and the gated endpoints answer one request at
\* a time.
BearerRequest(gate, payload) ==
    /\ auth = NoAuth
    /\ \E e \in issued : e.token = payload
    /\ GatedRequest(gate, Bearer(payload))

\* The answer of the auth endpoint is sent.
AuthRespond ==
    /\ auth # NoAuth
    /\ auth' = NoAuth
    /\ UNCHANGED <<users, last, args, res, hierarchy, procs, issued>>

(***************************************************************************)
(* The permission checks line by line, as threads that share HIERARCHY run *)
(* them. Each thread checks the roles args[1] (the caller's) and args[2]   *)
(* (the required one).                                                     *)
(***************************************************************************)
\* cls.HIERARCHY.get(role, set()) on the shared table
dict_get(table, role) ==
    IF role \in DOMAIN table THEN table[role] ELSE {}

\* Where a thread continues when has_permission returns.
AfterHasPermission(op) ==
    IF op = "role_checker" THEN "l127" ELSE "done"

Call(p, op) ==
    /\ procs[p].pc = "idle"
    /\ procs' = [procs EXCEPT ![p] = [Idle EXCEPT !.op = op, !.pc = Entry[op]]]
    /\ UNCHANGED <<users, last, args, res, hierarchy, issued, auth>>

\* has_permission, line 78: if user_role == required_role: return True
has_permission_l78(p) ==
    /\ procs[p].pc = "l78"
    /\ procs' = [procs EXCEPT ![p] =
                  IF args[1] = args[2]
                  THEN [@ EXCEPT !.ret_bool = TRUE,
                                 !.pc = AfterHasPermission(procs[p].op)]
                  ELSE [@ EXCEPT !.pc = "l82"]]
    /\ UNCHANGED <<users, last, args, res, hierarchy, issued, auth>>

\* has_permission, line 82: return required_role in get_inherited_roles(..)
has_permission_l82(p) ==
    /\ procs[p].pc = "l82"
    /\ procs' = [procs EXCEPT ![p] =
                  [@ EXCEPT !.ret_bool = args[2] \in dict_get(hierarchy, args[1]),
                            !.pc = AfterHasPermission(procs[p].op)]]
    /\ UNCHANGED <<users, last, args, res, hierarchy, issued, auth>>

\* get_inherited_roles, line 95
get_inherited_roles_l95(p) ==
    /\ procs[p].pc = "l95"
    /\ procs' = [procs EXCEPT ![p] =
                  [@ EXCEPT !.ret_set = dict_get(hierarchy, args[1]),
                            !.pc = "done"]]
    /\ UNCHANGED <<users, last, args, res, hierarchy, issued, auth>>

\* get_all_permissions, line 108: permissions = {role}
get_all_permissions_l108(p) ==
    /\ procs[p].pc = "l108"
    /\ procs' = [procs EXCEPT ![p] =
                  [@ EXCEPT !.permissions = {args[1]}, !.pc = "l109"]]
    /\ UNCHANGED <<users, last, args, res, hierarchy, issued, auth>>

\* Line 109 with receiver and argument exchanged:
\* cls.get_inherited_roles(role).update(permissions)
get_all_permissions_l109_UpdatesInherited(p) ==
    /\ procs[p].pc = "l109"
    /\ args[1] \in DOMAIN hierarchy
    /\ hierarchy' = [hierarchy EXCEPT ![args[1]] = @ \cup procs[p].permissions]
    /\ procs' = [procs EXCEPT ![p] = [@ EXCEPT !.pc = "l110"]]
    /\ UNCHANGED <<users, last, args, res, issued, auth>>

\* get_all_permissions, line 109:
\* permissions.update(cls.get_inherited_roles(role))
get_all_permissions_l109(p) ==
    /\ procs[p].pc = "l109"
    /\ procs' = [procs EXCEPT ![p] =
                  [@ EXCEPT !.permissions = @ \cup dict_get(hierarchy, args[1]),
                            !.pc = "l110"]]
    /\ UNCHANGED <<users, last, args, res, hierarchy, issued, auth>>

\* get_all_permissions, line 110: return permissions
get_all_permissions_l110(p) ==
    /\ procs[p].pc = "l110"
    /\ procs' = [procs EXCEPT ![p] =
                  [@ EXCEPT !.ret_set = procs[p].permissions, !.pc = "done"]]
    /\ UNCHANGED <<users, last, args, res, hierarchy, issued, auth>>

\* role_checker, line 126: the call of has_permission
role_checker_l126(p) ==
    /\ procs[p].pc = "l126"
    /\ procs' = [procs EXCEPT ![p] = [@ EXCEPT !.pc = "l78"]]
    /\ UNCHANGED <<users, last, args, res, hierarchy, issued, auth>>

\* role_checker, lines 127-131: raise 403, or return current_user
role_checker_l127(p) ==
    /\ procs[p].pc = "l127"
    /\ procs' = [procs EXCEPT ![p] =
                  [@ EXCEPT !.ret_status = IF ~procs[p].ret_bool THEN 403
                                           ELSE Allowed,
                            !.pc = "done"]]
    /\ UNCHANGED <<users, last, args, res, hierarchy, issued, auth>>

\* The caller of the check takes the result.
Finish(p) ==
    /\ procs[p].pc = "done"
    /\ procs' = [procs EXCEPT ![p] = Idle]
    /\ UNCHANGED <<users, last, args, res, hierarchy, issued, auth>>

\* is_admin and has_permission(role, ADMIN) on the first input.
CallIsAdmin ==
    /\ "is_admin" \notin res.done
    /\ res' = [res EXCEPT
                 !.done = @ \cup {"is_admin"},
                 !.is_admin = is_admin(args[1]),
                 !.admin_permission = has_permission(args[1], ADMIN)]
    /\ UNCHANGED <<hierarchy, procs, issued, auth>>
    /\ UNCHANGED <<users, last, args>>

NextInput ==
    /\ res.done # {}
    /\ args' \in Role \X Role \X Role
    /\ res' = NoResult
    /\ UNCHANGED <<hierarchy, procs, issued, auth>>
    /\ UNCHANGED <<users, last>>

(***************************************************************************)
(* Specifications.                                                         *)
(***************************************************************************)
Init ==
    /\ users = [u \in UserIds |-> NoUser]
    /\ last = NoRequest
    /\ args = <<USER, USER, USER>>
    /\ res = NoResult
    /\ hierarchy = HIERARCHY
    /\ procs = [p \in Procs |-> Idle]
    /\ issued = {}
    /\ auth = NoAuth

Next ==
    \/ \E u \in UserIds, role \in Role, is_active \in BOOLEAN :
          create_user(u, role, is_active)
    \/ \E u \in UserIds : deactivate_user(u)
    \/ \E u \in UserIds : activate_user(u)
    \/ \E gate \in AllGates, token \in Credentials : GatedRequest(gate, token)
    \/ Respond

Spec == Init /\ [][Next]_vars

\* The accounts as the scripts and the service create them, and requests to
\* the endpoints of app/api/v1/user.py: those behind the two admin gates and
\* the optional-user dependency, and the deactivation endpoint.
NextAdmin ==
    \/ \E u \in UserIds, role \in {USER, ADMIN, INSTRUCTOR} :
          create_user(u, role, TRUE)
    \/ seed_initial_data
    \/ migrate_user_roles
    \/ \E u \in UserIds : deactivate_user(u)
    \/ \E u \in UserIds : activate_user(u)
    \/ \E gate \in AdminGates \cup {OptionalGate}, token \in Credentials :
          GatedRequest(gate, token)
    \/ \E token \in Credentials, n \in UserIds, row \in {0} \cup UserIds :
          deactivate_user_endpoint(token, PathId(n), row)
    \/ Respond

SpecAdmin == Init /\ [][NextAdmin]_vars

\* The gates of the endpoints the clients of SpecSession call.
SessionGates ==
    {[name |-> "get_current_active_user", role |-> NoRole],
     [name |-> "require_admin", role |-> ADMIN]}

\* The tokens login creates.
LoginTokens ==
    UNION {{create_access_token(Email(u), Uuid(u), role),
            create_refresh_token(Uuid(u))} :
              u \in UserIds, role \in {USER, ADMIN}}

\* Clients that log in and call gated endpoints with the tokens they hold,
\* while accounts are created, seeded, migrated, deactivated and activated.
NextSession ==
    \/ \E u \in UserIds, role \in {USER, ADMIN} : create_user(u, role, TRUE)
    \/ seed_initial_data
    \/ migrate_user_roles
    \/ \E u \in UserIds : deactivate_user(u)
    \/ \E u \in UserIds : activate_user(u)
    \/ \E u \in UserIds : last = NoRequest /\ login(Email(u), TRUE)
    \/ AuthRespond
    \/ \E gate \in SessionGates, payload \in LoginTokens :
          BearerRequest(gate, payload)
    \/ Respond

SpecSession == Init /\ [][NextSession]_vars

NextGate ==
    \/ \E gate \in AllGates, current_user \in Callers :
          GateCall(gate, current_user)
    \/ Respond

SpecGate == Init /\ [][NextGate]_vars

InitRoles ==
    /\ users = [u \in UserIds |-> NoUser]
    /\ last = NoRequest
    /\ args \in Role \X Role \X Role
    /\ res = NoResult
    /\ hierarchy = HIERARCHY
    /\ procs = [p \in Procs |-> Idle]
    /\ issued = {}
    /\ auth = NoAuth

NextRoles ==
    \/ CallHasPermission
    \/ CallGetInheritedRoles
    \/ CallGetAllPermissions
    \/ NextInput

SpecRoles == InitRoles /\ [][NextRoles]_vars

NextCatalog ==
    \/ CallInHierarchy
    \/ CallCheckNoCycles
    \/ WalkStep
    \/ CallStr
    \/ CallPredicates
    \/ CallIsAdmin

SpecCatalog == InitRoles /\ [][NextCatalog]_vars

\* Registered accounts log in and refresh while an administrator
\* deactivates and reactivates them.
NextAuth ==
    \/ \E u \in UserIds, role \in {USER, ADMIN} : create_user(u, role, TRUE)
    \/ \E u \in UserIds : deactivate_user(u)
    \/ \E u \in UserIds : activate_user(u)
    \/ \E u \in UserIds, password_verifies \in BOOLEAN :
          login(Email(u), password_verifies)
    \/ \E refresh_token \in PresentedTokens :
          refresh_access_token(refresh_token)
    \/ AuthRespond

SpecAuth == Init /\ [][NextAuth]_vars

InitConcurrent ==
    /\ users = [u \in UserIds |-> NoUser]
    /\ last = NoRequest
    /\ args \in Role \X Role \X {USER}
    /\ res = NoResult
    /\ hierarchy = HIERARCHY
    /\ procs = [p \in Procs |-> Idle]
    /\ issued = {}
    /\ auth = NoAuth

NextConcurrent ==
    \E p \in Procs :
        \/ \E op \in DOMAIN Entry : Call(p, op)
        \/ has_permission_l78(p)
        \/ has_permission_l82(p)
        \/ get_inherited_roles_l95(p)
        \/ get_all_permissions_l108(p)
        \/ get_all_permissions_l109(p)
        \/ get_all_permissions_l110(p)
        \/ role_checker_l126(p)
        \/ role_checker_l127(p)
        \/ Finish(p)

SpecConcurrent == InitConcurrent /\ [][NextConcurrent]_vars

(***************************************************************************)
(* Properties of the gates, stated for Spec.                               *)
(***************************************************************************)
\* The identifier get_current_user looks the caller up by.
Identifier(token) ==
    IF token.user_id # NoClaim THEN token.user_id ELSE token.sub

\* No caller can be resolved from the credential of the request.
Unresolvable(token) ==
    \/ ~token.present
    \/ ~token.decodable
    \/ token.user_id = NoClaim /\ token.sub = NoClaim
    \/ ~\E u \in UserIds :
          users[u].exists /\ Identifier(token) \in {Uuid(u), Email(u)}

InsufficientRole(required_role) ==
    HTTPException(403, <<"Access denied.", Title(required_role),
                         "role required.">>)

\* C1: for every required role R and every resolved caller, the gate of
\* require_role(R) (and each pre-defined gate, for its own role) allows the
\* caller exactly when the caller is active and has_permission(caller.role, R);
\* for an active caller without the permission it raises 403 with a message
\* that names R and no other role.
C1_RequireRoleDecision ==
    (last.gate \in RoleGates /\ last.resolved # NoCaller) =>
        LET caller == last.resolved
            R == last.gate.role
        IN  /\ (last.result.status = Allowed) <=>
                  (caller.is_active /\ has_permission(caller.role, R))
            /\ last.result.status = Allowed => last.result.user = caller
            /\ (caller.is_active /\ ~has_permission(caller.role, R)) =>
                  /\ last.result = InsufficientRole(R)
                  /\ \A r \in Role :
                        Title(r) = last.result.detail[2] => r = R

C1_Witness ==
    /\ last.gate.name = "require_instructor"
    /\ last.resolved.is_active
    /\ last.resolved.role = STUDENT
    /\ last.result.status = 403
    /\ last.result.detail[2] = "Instructor"

\* C5: a caller that is resolved but inactive is rejected with 400 "Inactive
\* user" by the any-active-user gate and by every role gate, whatever its
\* role; the outcome is neither 401 nor an allow.
C5_InactiveRejected ==
    (last.gate \in Gates /\ last.resolved # NoCaller
        /\ ~last.resolved.is_active) =>
        /\ last.result = HTTPException(400, <<"Inactive user">>)
        /\ last.result.status \notin {401, Allowed}

C5_Witness ==
    /\ last.gate.name = "require_admin"
    /\ last.resolved.id \in UserIds
    /\ last.resolved.role = ADMIN
    /\ ~last.resolved.is_active
    /\ last.result.status = 400

\* C6: when no caller can be resolved (no credential, an undecodable or
\* expired token, a token with neither user_id nor sub, an identifier that
\* matches no stored user) every gated request ends with 401, never with 400,
\* 403 or an allow.
C6_Unauthenticated ==
    (last.gate \in Gates /\ Unresolvable(last.token)) =>
        /\ last.result.status = 401
        /\ last.result.user = NoCaller

C6_Witness ==
    /\ last.gate.name = "require_finance_viewer"
    /\ last.token.decodable
    /\ last.token.user_id # NoClaim
    /\ \E u \in UserIds : users[u].exists
    /\ Unresolvable(last.token)
    /\ last.result.status = 401

(***************************************************************************)
(* Properties of the role hierarchy, stated for SpecRoles.                 *)
(***************************************************************************)
\* C2: has_permission is transitive: if has_permission(A, B) and
\* has_permission(B, C) returned true then has_permission(A, C) returned true.
C2_Transitive ==
    ("has_permission" \in res.done /\ res.ab /\ res.bc) => res.ac

C2_Witness ==
    /\ "has_permission" \in res.done
    /\ args = <<INSTRUCTOR, STUDENT, USER>>
    /\ res.ab /\ res.bc /\ res.ac

\* C3: get_all_permissions(r) is {r} united with the transitive closure of
\* the inheritance edges starting at r.
C3_AllPermissionsIsClosure ==
    "get_all_permissions" \in res.done =>
        res.permissions = {args[1]} \cup Reachable(args[1])

C3_Witness ==
    /\ "get_all_permissions" \in res.done
    /\ args[1] = INSTRUCTOR
    /\ res.permissions = {INSTRUCTOR, STUDENT, USER}

\* C4: has_permission(A, R) is true exactly when R is a member of
\* get_all_permissions(A).
C4_ChecksAgree ==
    {"has_permission", "get_all_permissions"} \subseteq res.done =>
        (res.ab <=> args[2] \in res.permissions)

C4_Witness ==
    /\ {"has_permission", "get_all_permissions"} \subseteq res.done
    /\ args[1] = FINANCE_MANAGER
    /\ args[2] = FINANCE_VIEWER
    /\ res.ab
    /\ args[2] \in res.permissions

\* C7: for distinct roles A and B with B not reachable from A along
\* inheritance edges, has_permission(A, B) is false.
C7_UnreachableDenied ==
    ("has_permission" \in res.done /\ args[1] # args[2]
        /\ args[2] \notin Reachable(args[1])) => ~res.ab

C7_Witness ==
    /\ "has_permission" \in res.done
    /\ args[1] = USER
    /\ args[2] = STUDENT
    /\ ~res.ab

\* The pairs of distinct roles (A, B), A not ADMIN, with permission.
NonAdminPairs ==
    {<<STUDENT, USER>>, <<INSTRUCTOR, USER>>, <<INSTRUCTOR, STUDENT>>,
     <<FINANCE_VIEWER, USER>>, <<FINANCE_MANAGER, USER>>,
     <<FINANCE_MANAGER, FINANCE_VIEWER>>, <<MODERATOR, USER>>,
     <<ANALYST, USER>>}

AcademyRoles == {STUDENT, INSTRUCTOR}
FinanceRoles == {FINANCE_VIEWER, FINANCE_MANAGER}

\* C8: for a non-ADMIN role A and a role B different from A,
\* has_permission(A, B) is true exactly for the eight listed pairs; no
\* non-ADMIN role has permission for ADMIN, and no academy role has
\* permission for a finance role or the reverse.
C8_PermissionTable ==
    ("has_permission" \in res.done /\ args[1] # ADMIN /\ args[1] # args[2]) =>
        /\ res.ab <=> <<args[1], args[2]>> \in NonAdminPairs
        /\ args[2] = ADMIN => ~res.ab
        /\ (args[1] \in AcademyRoles /\ args[2] \in FinanceRoles) => ~res.ab
        /\ (args[1] \in FinanceRoles /\ args[2] \in AcademyRoles) => ~res.ab

C8_Witness ==
    /\ "has_permission" \in res.done
    /\ args[1] = ANALYST
    /\ args[2] = FINANCE_VIEWER
    /\ ~res.ab

\* C9: has_permission(ADMIN, R) is true for every role R of the catalog, and
\* get_all_permissions(ADMIN) is the whole catalog, ADMIN included.
C9_AdminCoversCatalog ==
    /\ ("has_permission" \in res.done /\ args[1] = ADMIN) => res.ab
    /\ ("get_all_permissions" \in res.done /\ args[1] = ADMIN) =>
          res.permissions = Role

C9_Witness ==
    /\ {"has_permission", "get_all_permissions"} \subseteq res.done
    /\ args[1] = ADMIN
    /\ args[2] = MODERATOR
    /\ res.ab
    /\ ADMIN \in res.permissions

\* C10: has_permission is reflexive: has_permission(R, R) is true for every
\* role R, also for a role whose inherited set is empty.
C10_Reflexive ==
    ("has_permission" \in res.done /\ args[1] = args[2]) => res.ab

C10_Witness ==
    /\ {"has_permission", "get_inherited_roles"} \subseteq res.done
    /\ args[1] = USER
    /\ args[2] = USER
    /\ res.inherited = {}
    /\ res.ab

(***************************************************************************)
(* Properties of the gates on the caller record, stated for Spec (C11) and *)
(* for SpecGate (C12, C17, C20).                                           *)
(***************************************************************************)
\* C11: a gate (get_current_active_user, get_current_active_superuser, every
\* require_role(R) checker) that allows returns the very caller record it was
\* given, with role, is_active and is_superuser unchanged, and evaluating a
\* gate changes no stored principal.
C11_GateFrame ==
    [][(last = NoRequest /\ last' # NoRequest) =>
          /\ users' = users
          /\ last'.gate \in AllGates
          /\ last'.result.status = Allowed =>
                /\ last'.result.user = last'.resolved
                /\ last'.result.user = Instance(users, last'.resolved.id)
                /\ last'.result.user = Instance(users', last'.resolved.id)]_vars

C11_Witness ==
    /\ last.gate = SuperuserGate
    /\ last.result.status = Allowed
    /\ last.result.user.role = ADMIN
    /\ last.result.user.id \in UserIds
    /\ users[last.result.user.id].role = ADMIN

\* C12: for an active caller whose record carries no role,
\* get_current_active_superuser allows exactly when is_superuser is true and
\* raises 403 otherwise; for a caller whose record carries a role the flag is
\* not read: the decision is has_permission(role, ADMIN), which takes roles
\* only.
C12_LegacyFallback ==
    (last.gate = SuperuserGate /\ last.resolved.is_active) =>
        LET caller == last.resolved
        IN  /\ caller.role = RoleAbsent =>
                /\ (last.result.status = Allowed) <=> caller.is_superuser
                /\ ~caller.is_superuser =>
                      last.result = HTTPException(403, AdminRequired)
            /\ caller.role # RoleAbsent =>
                /\ (last.result.status = Allowed) <=>
                      has_permission(caller.role, ADMIN)
                /\ last.result.status =
                      superuser_check(
                        [caller EXCEPT !.is_superuser = ~@]).status

C12_Witness ==
    /\ last.gate = SuperuserGate
    /\ last.resolved.is_active
    /\ last.resolved.role = RoleAbsent
    /\ last.resolved.is_superuser
    /\ last.result.status = Allowed
    /\ last.result.user = last.resolved

\* C17: a role without a HIERARCHY entry (an unknown role value, a missing
\* role) has no inherited roles: get_inherited_roles returns the empty set,
\* has_permission(x, R) is false for every catalog role R, and require_role(R)
\* answers an active caller of that role with the insufficient-role 403.
C17_UnknownRoleDenied ==
    (last # NoRequest /\ last.resolved.role \notin Role) =>
        LET x == last.resolved.role
        IN  /\ get_inherited_roles(x) = {}
            /\ \A R \in Role : ~has_permission(x, R)
            /\ (last.gate \in RoleGates /\ last.resolved.is_active) =>
                  last.result = InsufficientRole(last.gate.role)

C17_Witness ==
    /\ last.gate.name = "require_role"
    /\ last.gate.role = USER
    /\ last.resolved.role = UnknownRole
    /\ last.resolved.is_active
    /\ last.result.status = 403
    /\ last.result.detail[2] = "User"

\* The caller lacks what the gate requires.
LacksPermission(gate, caller) ==
    IF gate = SuperuserGate /\ caller.role = RoleAbsent
    THEN ~caller.is_superuser
    ELSE ~has_permission(caller.role, gate.role)

\* C20: the account state is checked before the role: an inactive caller that
\* also lacks the required permission is answered 400 "Inactive user", never
\* 403, by get_current_active_superuser and by every require_role(R).
C20_InactiveBeforeRole ==
    (last.gate \in RoleGates \cup {SuperuserGate}
        /\ ~last.resolved.is_active
        /\ LacksPermission(last.gate, last.resolved)) =>
        /\ last.result = HTTPException(400, <<"Inactive user">>)
        /\ last.result.status # 403

C20_Witness ==
    /\ last.gate = SuperuserGate
    /\ ~last.resolved.is_active
    /\ last.resolved.role = USER
    /\ ~last.resolved.is_superuser
    /\ last.result.status = 400

(***************************************************************************)
(* Properties of the role catalog, stated for SpecCatalog.                 *)
(***************************************************************************)
\* C13: HIERARCHY is total over the catalog: every Role is a key of
\* HIERARCHY, and every role in an inherited set is a role of the catalog.
C13_HierarchyTotal ==
    "in_hierarchy" \in res.done =>
        /\ res.in_hierarchy
        /\ res.in_catalog
        /\ args[1] \in DOMAIN HIERARCHY
        /\ HIERARCHY[args[1]] \subseteq Role

C13_Witness ==
    /\ "in_hierarchy" \in res.done
    /\ args[1] = ANALYST
    /\ res.in_hierarchy
    /\ res.in_catalog

\* C14: the hierarchy is acyclic: no role is reachable from itself, a walk
\* along inherited roles never stands on a role twice and so ends within
\* fewer steps than the catalog has roles, and the expansion of the inherited
\* roles reaches its fixpoint within that many steps.
C14_Acyclic ==
    LET visited == <<args[1]>> \o res.walk
    IN  /\ \A i, j \in 1..Len(visited) :
              i # j => visited[i] # visited[j]
        /\ Len(res.walk) < Cardinality(Role)
        /\ "check_no_cycles" \in res.done => res.no_cycles
        /\ args[1] \notin Reachable(args[1])
        /\ Expand(Reachable(args[1])) = Reachable(args[1])

C14_Witness ==
    /\ args[1] = ADMIN
    /\ res.walk = <<INSTRUCTOR, STUDENT, USER>>
    /\ get_inherited_roles(res.walk[3]) = {}
    /\ "check_no_cycles" \in res.done
    /\ res.no_cycles

\* C16: the serialization of a role round-trips: Role(str(r)) = r, str(r) is
\* the lowercase token of r, and two distinct roles have distinct tokens.
C16_RoundTrip ==
    "str" \in res.done =>
        /\ res.parsed = res.member
        /\ res.str = lower(res.member)
        /\ res.str \in Role
        /\ \A other \in DOMAIN RoleValue :
              other # res.member => str(other) # res.str

C16_Witness ==
    /\ "str" \in res.done
    /\ res.member = "FINANCE_MANAGER"
    /\ res.str = "finance_manager"
    /\ res.parsed = "FINANCE_MANAGER"

\* C18: is_instructor_or_higher is true only for INSTRUCTOR and ADMIN,
\* is_finance_manager_or_higher only for FINANCE_MANAGER and ADMIN,
\* can_view_finances only for FINANCE_VIEWER, FINANCE_MANAGER and ADMIN,
\* can_moderate only for MODERATOR and ADMIN, can_view_analytics only for
\* ANALYST and ADMIN.
C18_ConveniencePredicates ==
    "predicates" \in res.done =>
        LET role == args[1]
            p == res.predicates
        IN  /\ p.is_instructor_or_higher <=> role \in {INSTRUCTOR, ADMIN}
            /\ p.is_finance_manager_or_higher <=>
                  role \in {FINANCE_MANAGER, ADMIN}
            /\ p.can_view_finances <=>
                  role \in {FINANCE_VIEWER, FINANCE_MANAGER, ADMIN}
            /\ p.can_moderate <=> role \in {MODERATOR, ADMIN}
            /\ p.can_view_analytics <=> role \in {ANALYST, ADMIN}

C18_Witness ==
    /\ "predicates" \in res.done
    /\ args[1] = FINANCE_VIEWER
    /\ res.predicates.can_view_finances
    /\ ~res.predicates.is_finance_manager_or_higher

(***************************************************************************)
(* Properties of concurrent permission checks, stated for SpecConcurrent.  *)
(***************************************************************************)
\* The caller record a role_checker thread checks.
CheckedCaller ==
    [id |-> 1, is_active |-> TRUE, is_superuser |-> FALSE, role |-> args[1]]

\* C15: permission checks share no mutable state: under every interleaving
\* of has_permission, get_inherited_roles, get_all_permissions and gate
\* evaluations HIERARCHY is never modified, and each check returns what the
\* same call returns when it runs alone.
C15_ChecksIndependent ==
    /\ hierarchy = HIERARCHY
    /\ \A p \in Procs :
          procs[p].pc = "done" =>
              CASE procs[p].op = "has_permission" ->
                      procs[p].ret_bool = has_permission(args[1], args[2])
                [] procs[p].op = "get_inherited_roles" ->
                      procs[p].ret_set = get_inherited_roles(args[1])
                [] procs[p].op = "get_all_permissions" ->
                      procs[p].ret_set = get_all_permissions(args[1])
                [] procs[p].op = "role_checker" ->
                      procs[p].ret_status =
                          role_checker(args[2], CheckedCaller).status

C15_Witness ==
    /\ args[1] = FINANCE_MANAGER
    /\ args[2] = FINANCE_VIEWER
    /\ procs[1].op = "get_all_permissions"
    /\ procs[1].pc = "l110"
    /\ procs[2].op = "role_checker"
    /\ procs[2].pc = "done"
    /\ procs[2].ret_status = Allowed

(***************************************************************************)
(* Properties of the auth endpoints, stated for SpecAuth.                  *)
(***************************************************************************)
\* C19: no access token is ever issued to an inactive account: a login with
\* matching credentials of an inactive user is answered 400, a refresh for an
\* inactive or missing user is answered 401, both without creating a token,
\* and every access token ever issued was issued while its user was active.
C19_NoTokenForInactive ==
    /\ \A e \in issued : e.token.type # "refresh" => e.active
    /\ (auth.op = "login" /\ auth.user # NoCaller /\ ~auth.user.is_active) =>
          /\ auth.status = 400
          /\ auth.tokens = {}
    /\ (auth.op = "refresh"
          /\ auth.detail # <<"Invalid refresh token">>
          /\ (auth.user = NoCaller \/ ~auth.user.is_active)) =>
          /\ auth.status = 401
          /\ auth.tokens = {}
    /\ auth.tokens # {} =>
          /\ auth.user.is_active
          /\ auth.tokens \subseteq {e.token : e \in issued}

C19_Witness ==
    /\ auth.op = "refresh"
    /\ auth.status = 401
    /\ auth.user # NoCaller
    /\ ~auth.user.is_active
    /\ ~users[auth.user.id].is_active
    /\ \E e \in issued :
          /\ e.token = create_refresh_token(Uuid(auth.user.id))
          /\ e.active

(***************************************************************************)
(* Further properties of the role hierarchy: C25 stated for SpecCatalog,   *)
(* C26 for SpecRoles.                                                      *)
(***************************************************************************)
\* C25: is_admin coincides with the hierarchy check: for every role r of the
\* catalog is_admin(r) is true exactly when has_permission(r, ADMIN) is true;
\* no role other than ADMIN inherits ADMIN.
C25_IsAdminIsPermission ==
    "is_admin" \in res.done =>
        /\ res.is_admin <=> res.admin_permission
        /\ res.is_admin <=> args[1] = ADMIN
        /\ args[1] # ADMIN => ADMIN \notin get_inherited_roles(args[1])

C25_Witness ==
    /\ "is_admin" \in res.done
    /\ args[1] = MODERATOR
    /\ ~res.is_admin
    /\ ~res.admin_permission

\* C26: has_permission is antisymmetric: when has_permission(A, B) and
\* has_permission(B, A) both returned true, A equals B; it is also reflexive
\* and transitive, hence a partial order on the catalog.
C26_PartialOrder ==
    "has_permission" \in res.done =>
        /\ (args[3] = args[1] /\ res.ab /\ res.bc) => args[1] = args[2]
        /\ args[1] = args[2] => res.ab
        /\ (res.ab /\ res.bc) => res.ac

C26_Witness ==
    /\ "has_permission" \in res.done
    /\ args = <<INSTRUCTOR, INSTRUCTOR, INSTRUCTOR>>
    /\ res.ab
    /\ res.bc

(***************************************************************************)
(* Further properties of the gates on the caller record, stated for        *)
(* SpecGate.                                                               *)
(***************************************************************************)
\* The caller with the same role and account state and the other value of
\* the legacy flag.
OtherFlag(caller) == [caller EXCEPT !.is_superuser = ~@]

\* C24: for a caller that carries a role the role-based gates do not depend
\* on the legacy flag: the active caller and the caller that differs from it
\* in is_superuser alone get the same decision from
\* get_current_active_superuser and from every require_role(R); a caller with
\* role USER and is_superuser true is denied admin access.
C24_FlagIndependent ==
    (last.gate \in RoleGates \cup {SuperuserGate}
        /\ last.resolved.is_active
        /\ last.resolved.role # RoleAbsent) =>
        LET caller == last.resolved
            other == EvaluateOn(last.gate, OtherFlag(caller))
        IN  /\ last.result.status = other.status
            /\ last.result.detail = other.detail
            /\ (caller.role = USER /\ caller.is_superuser
                  /\ last.gate.role = ADMIN) => last.result.status = 403

C24_Witness ==
    /\ last.gate = SuperuserGate
    /\ last.resolved.is_active
    /\ last.resolved.role = USER
    /\ last.resolved.is_superuser
    /\ last.result = HTTPException(403, AdminRequired)

(***************************************************************************)
(* Properties of the admin gates and of the role migration, stated for     *)
(* SpecAdmin.                                                              *)
(***************************************************************************)
\* C23: the two admin gates agree: for every active stored user the request
\* resolves, get_current_superuser and get_current_active_superuser reach the
\* same allow/deny decision.
C23_AdminGatesAgree ==
    (last.gate \in AdminGates /\ last.resolved # NoCaller
        /\ last.resolved.is_active) =>
        ((get_current_superuser(last.token, users).status = Allowed)
            <=> (get_current_active_superuser(last.token, users).status
                    = Allowed))

\* C29: a completed migrate_user_roles leaves every stored user with the role
\* ADMIN when its is_superuser flag is true and USER otherwise, whatever its
\* role was, and changes neither is_superuser nor is_active of any user.
C29_MigrationSetsRoles ==
    [][migrate_user_roles =>
          \A u \in UserIds :
              /\ users'[u].exists = users[u].exists
              /\ users'[u].is_superuser = users[u].is_superuser
              /\ users'[u].is_active = users[u].is_active
              /\ users[u].exists =>
                    users'[u].role = IF users[u].is_superuser THEN ADMIN
                                     ELSE USER]_vars

C29_Witness ==
    /\ users[AdminSlot].exists
    /\ users[AdminSlot].is_superuser
    /\ users[AdminSlot].role = ADMIN
    /\ \E u \in UserIds :
          /\ users[u].exists
          /\ ~users[u].is_superuser
          /\ ~users[u].is_active
          /\ users[u].role = USER

\* C30: get_optional_current_user never signals an error: it returns no
\* caller for a missing or undecodable token, a token without user_id and
\* sub, an unknown user and an inactive user, and returns the stored user
\* exactly when get_current_user resolves one.
C30_OptionalNeverFails ==
    last.gate = OptionalGate =>
        LET strict == get_current_user(last.token, users)
        IN  /\ last.result.status = Allowed
            /\ last.result.user = IF strict.status = Allowed THEN strict.user
                                  ELSE NoCaller

\* C27: a superuser cannot deactivate their own account: after a call of the
\* deactivate endpoint made by superuser u, u's account is still active, and
\* the call never succeeds with u's own account as its target.
C27_NoSelfDeactivation ==
    (last.gate = DeactivateRoute /\ last.resolved # NoCaller) =>
        /\ users[last.resolved.id].is_active
        /\ last.result.status = Allowed =>
              last.result.user.id # last.resolved.id

(***************************************************************************)
(* Properties of the sessions of SpecSession: tokens created by login and  *)
(* presented later, after the store has changed.                           *)
(***************************************************************************)
\* C21: deactivation takes effect on the next request: a gated request is
\* allowed only if its user is active in the store at that time; an access
\* token created earlier yields 400 "Inactive user" at every gate while its
\* user is deactivated, and is accepted for an active user.
C21_DeactivationTakesEffect ==
    /\ last.gate \in SessionGates =>
          /\ last.result = Evaluate(last.gate, last.token, users)
          /\ last.result.status = Allowed =>
                /\ last.resolved # NoCaller
                /\ users[last.resolved.id].is_active
    /\ \A e \in issued, gate \in SessionGates :
          e.token.type = NoType =>
              LET u == Owner(e.token)
                  r == Evaluate(gate, Bearer(e.token), users)
              IN  /\ ~users[u].is_active =>
                        r = HTTPException(400, <<"Inactive user">>)
                  /\ users[u].is_active => r.status \in {Allowed, 403}
                  /\ (users[u].is_active /\ gate.role = NoRole) =>
                        r = Return(Instance(users, u))

C21_Witness ==
    /\ last.gate \in SessionGates
    /\ last.token.type = NoType
    /\ \E e \in issued : Bearer(e.token) = last.token /\ e.active
    /\ ~users[Owner(last.token)].is_active
    /\ last.result = HTTPException(400, <<"Inactive user">>)

\* C22: the gate decides on the role stored for the user at request time:
\* the request of an active user is allowed exactly when the stored role has
\* the permission of the gate's role, whatever role claim the access token
\* carries.
C22_StoredRoleDecides ==
    (last.gate \in SessionGates /\ last.token.type = NoType
        /\ last.resolved # NoCaller /\ last.resolved.is_active) =>
        LET stored == users[last.resolved.id].role
        IN  /\ last.gate.role \in Role =>
                  (last.result.status = Allowed
                      <=> has_permission(stored, last.gate.role))
            /\ last.gate.role = NoRole => last.result.status = Allowed
            /\ \A claim \in {USER, ADMIN, NoRole} :
                  Evaluate(last.gate, [last.token EXCEPT !.role = claim],
                           users) = last.result

C22_Witness ==
    /\ last.gate.role = ADMIN
    /\ last.token.type = NoType
    /\ last.token.role = ADMIN
    /\ last.resolved # NoCaller
    /\ last.resolved.is_active
    /\ users[last.resolved.id].role = USER
    /\ last.result.status = 403

\* C28: token kinds are not interchangeable: no access token passes
\* verify_refresh_token, and a refresh token presented as the bearer
\* credential of a gated request is rejected with 401.
C28_TokenKindsDistinct ==
    /\ \A e \in issued :
          e.token.type # "refresh" =>
              verify_refresh_token([signed |-> TRUE, payload |-> e.token])
                  = NoClaim
    /\ (last.gate \in SessionGates /\ last.token.type = "refresh") =>
          last.result.status = 401

====
